---- MODULE Spec2Model ----
(***************************************************************************)
(* DevReports Explorer: the Dash version (src/dash-app.py) and the         *)
(* Streamlit version (src/app.py).  Text is a sequence of one-character    *)
(* strings; a DataFrame is a record [columns, rows].                        *)
(***************************************************************************)
EXTENDS Integers, Sequences, FiniteSets, TLC

VARIABLES
    fs,               \* the CSV files of the working directory: org name -> file
    topic_input,      \* dash: value of 'topic-input'
    dropdown_value,   \* dash: value of 'data-source-dropdown'
    current_page,     \* dash: data of dcc.Store 'current-page'
    n_clicks,         \* dash: n_clicks of 'search-button'
    search_results,   \* dash: children of 'search-results' (the cards)
    pagination_info,  \* dash: children of 'pagination-info'
    prev_disabled,    \* dash: 'prev-button'.disabled
    next_disabled,    \* dash: 'next-button'.disabled
    load_cache,       \* dash: lru_cache of load_data
    synthesis_cache,  \* dash: lru_cache of generate_synthesis
    data_cache,       \* streamlit: st.cache_data of load_data
    insight_cache,    \* streamlit: st.cache_data of generate_insight
    session_state,    \* streamlit: st.session_state
    selected_option,  \* streamlit: value of the data-source selectbox
    page_output,      \* streamlit: what the last run of main() rendered
    api_calls,        \* number of API calls made, per <<function, <<paragraph, topic>>>>
    event             \* the last handler that ran, with its inputs and result

vars == <<fs, topic_input, dropdown_value, current_page, n_clicks, search_results,
          pagination_info, prev_disabled, next_disabled, load_cache, synthesis_cache,
          data_cache, insight_cache, session_state, selected_option, page_output,
          api_calls, event>>

dashVars == <<topic_input, dropdown_value, current_page, n_clicks, search_results,
              pagination_info, prev_disabled, next_disabled, load_cache, synthesis_cache>>

stVars == <<data_cache, insight_cache, session_state, selected_option, page_output>>

(***************************************************************************)
(* Bounds of the model.                                                    *)
(***************************************************************************)
RowsPerFile == 12      \* rows of the large CSV file
MaxTopicLen == 2       \* longest topic the user types
MaxFrameRows == 3      \* rows of a drawn DataFrame handed to the filter
MaxPageArg == 4        \* largest stored page handed to perform_search
FreshPairs == 2        \* (paragraph, topic) pairs requested beyond the prefilled cache
TinyRows == 2          \* rows of the short CSV file
MaxClicks == 2         \* largest n_clicks the search button reaches

(***************************************************************************)
(* Program constants.                                                      *)
(***************************************************************************)
RESULTS_PER_PAGE == 10
LoadDataMaxsize == 32
SynthesisMaxsize == 1000

\* an empty cell; no text holds the symbol "NaN"
NaN == <<"NaN">>

Min(a, b) == IF a < b THEN a ELSE b
Max(a, b) == IF a > b THEN a ELSE b

\* math.ceil(a / b) for a >= 0, b > 0
Ceil(a, b) == (a + b - 1) \div b

RECURSIVE Concat(_, _)
\* concatenation of the sequences ss[i..Len(ss)]
Concat(ss, i) == IF i > Len(ss) THEN <<>> ELSE ss[i] \o Concat(ss, i + 1)


(***************************************************************************)
(* The working directory.  A file is "unreadable" (pd.read_csv raises) or  *)
(* a parsed CSV: its columns and its rows.  A cell is a text or NaN.       *)
(***************************************************************************)
OrgNames == <<"o1", "o2">>          \* os.listdir order of the *.csv files, extension cut
Orgs == {OrgNames[i] : i \in DOMAIN OrgNames}
Unreadable == [unreadable |-> TRUE]

Row(paragraph, country, organization) ==
    [paragraph |-> paragraph, country |-> country, organization |-> organization]

\* paragraph i of the large file: every one holds "a" or "A", every third holds "b"
BigPara(i) ==
    <<IF i % 2 = 0 THEN "A" ELSE "a">> \o (IF i % 3 = 0 THEN <<"b">> ELSE <<>>)
        \o <<ToString(i)>>

BigFile == [columns |-> {"paragraph"},
            rows |-> [i \in 1..RowsPerFile |-> Row(BigPara(i), NaN, "")]]

\* a file with a country column and a row whose paragraph cell is empty
SmallFile == [columns |-> {"paragraph", "country"},
              rows |-> <<Row(<<"a", "b">>, <<"K", "E">>, ""), Row(NaN, <<"K", "E">>, ""),
                         Row(<<"B", "c">>, <<" ">>, "")>>]

\* a file with an empty country cell in a row that holds "a"
GapFile == [columns |-> {"paragraph", "country"},
            rows |-> <<Row(<<"c", "a">>, NaN, ""), Row(<<"b">>, <<"K", "E">>, "")>>]

\* a short file
TinyFile == [columns |-> {"paragraph"},
             rows |-> [i \in 1..TinyRows |->
                         Row(<<IF i % 2 = 1 THEN "a" ELSE "b", ToString(i)>>, NaN, "")]]

\* a file without the required 'paragraph' column
NoParaFile == [columns |-> {"country"}, rows |-> <<Row(NaN, <<"K", "E">>, "")>>]

FileChoices == {Unreadable, BigFile, SmallFile, GapFile, NoParaFile}

DropdownOptions == {"All"} \cup Orgs

Exception(type, msg) == [raise |-> type, msg |-> msg]
IsException(x) == "raise" \in DOMAIN x

\* what the file-reading except-clauses catch; a TypeError is raised outside them
ReadFailed(x) == "unreadable" \in DOMAIN x

get_org_files == [org_names |-> OrgNames,
                  org_to_file |-> [i \in DOMAIN OrgNames |-> <<OrgNames[i], OrgNames[i]>>]]

\* pd.read_csv(file) followed by df['organization'] = org
ReadTagged(files, org) ==
    IF ReadFailed(files[org]) THEN Unreadable
    ELSE [columns |-> files[org].columns \cup {"organization"},
          rows |-> [i \in DOMAIN files[org].rows |->
                      [files[org].rows[i] EXCEPT !.organization = org]]]

\* pd.concat(data_frames, ignore_index=True): a column missing in a frame is NaN there
PdConcat(frames) ==
    [columns |-> UNION {frames[i].columns : i \in DOMAIN frames},
     rows |-> Concat([i \in DOMAIN frames |-> frames[i].rows], 1)]

\* the 'All' branch, shared by both versions: the files that load, concatenated
LoadAll(files, org_to_file) ==
    LET loaded == SelectSeq([i \in DOMAIN org_to_file |-> ReadTagged(files, org_to_file[i][1])],
                            LAMBDA df : ~ReadFailed(df))
    IN  IF loaded # <<>>
        THEN LET combined_df == PdConcat(loaded)
             IN  IF "paragraph" \in combined_df.columns
                 THEN combined_df
                 ELSE Exception("ValueError", "missing required columns")
        ELSE Exception("FileNotFoundError", "No CSV files found in the directory.")

\* the single-organization branch, given the file looked up in the mapping
LoadOne(files, org) ==
    LET df == ReadTagged(files, org)
    IN  IF ReadFailed(df) THEN Exception("FileNotFoundError", "file was not found")
        ELSE IF "paragraph" \in df.columns THEN df
        ELSE Exception("ValueError", "must contain the following columns")

\* dash-app.py load_data without its lru_cache; org_to_file is the tuple of
\* (org, file) pairs perform_search passes, so org_to_file[selected_option]
\* indexes a tuple with a str
load_data(files, option, org_to_file) ==
    IF option = "All" THEN LoadAll(files, org_to_file)
    ELSE Exception("TypeError", "tuple indices must be integers or slices, not str")

\* app.py load_data without its st.cache_data; org_to_file is a dict, st.stop()
\* is the exception "StopException"
app_load_data(files, option, org_to_file) ==
    IF option = "All"
    THEN LET df == LoadAll(files, org_to_file)
         IN  IF IsException(df) THEN Exception("StopException", df.msg) ELSE df
    ELSE LET df == LoadOne(files, option)
         IN  IF IsException(df) THEN Exception("StopException", df.msg) ELSE df

(***************************************************************************)
(* Series.str.contains(topic, case=False, na=False): regex defaults to     *)
(* True, so the topic is compiled as a regular expression with             *)
(* re.IGNORECASE and searched in every cell.  Of the regex syntax the      *)
(* model's alphabet holds "." (any character) and "(" (an unterminated     *)
(* group, which re.compile rejects).                                       *)
(***************************************************************************)
Lower(c) == CASE c = "A" -> "a" [] c = "B" -> "b" [] OTHER -> c

ReCompileFails(pat) == \E j \in DOMAIN pat : pat[j] = "("

ReMatchChar(pc, c) == pc = "." \/ Lower(pc) = Lower(c)

ReSearch(pat, text) ==
    \E i \in 0..(Len(text) - Len(pat)) :
        \A j \in DOMAIN pat : ReMatchChar(pat[j], text[i + j])

StrContains(cell, pat) == IF cell = NaN THEN FALSE ELSE ReSearch(pat, cell)

\* app.py filter_data; dash-app.py line 243 is the same expression
filter_data(df, topic) ==
    IF ReCompileFails(topic) THEN Exception("re.error", "missing ), unterminated subpattern")
    ELSE [columns |-> df.columns,
          rows |-> SelectSeq(df.rows, LAMBDA r : StrContains(r.paragraph, topic))]

(***************************************************************************)
(* The caches.  A cache is a sequence of [key, value], least recently      *)
(* used first.  functools.lru_cache drops the head when a miss finds the   *)
(* cache full; st.cache_data has no limit.  An exception is not cached.    *)
(***************************************************************************)
CacheHas(cache, key) == \E i \in DOMAIN cache : cache[i].key = key
CacheIdx(cache, key) == CHOOSE i \in DOMAIN cache : cache[i].key = key
CacheGet(cache, key) == cache[CacheIdx(cache, key)].value
CacheDrop(cache, i) == SubSeq(cache, 1, i - 1) \o SubSeq(cache, i + 1, Len(cache))

\* a hit of functools.lru_cache: the entry becomes the most recently used
LruTouch(cache, key) ==
    LET i == CacheIdx(cache, key) IN CacheDrop(cache, i) \o <<cache[i]>>

\* a store that evicts the oldest entry whether or not the cache is full
LruStoreAlwaysEvicts(cache, maxsize, key, value) ==
    Tail(cache) \o <<[key |-> key, value |-> value]>>

\* a miss of functools.lru_cache(maxsize): the result is stored, evicting the oldest
LruStore(cache, maxsize, key, value) ==
    (IF Len(cache) >= maxsize THEN Tail(cache) ELSE cache)
        \o <<[key |-> key, value |-> value]>>

\* st.cache_data: a dict from the arguments to the result, never evicted
StHas(cache, key) == \E e \in cache : e.key = key
StGet(cache, key) == (CHOOSE e \in cache : e.key = key).value
StStore(cache, key, value) == cache \cup {[key |-> key, value |-> value]}

(***************************************************************************)
(* The language-model call.  outcome is what openai.ChatCompletion.create  *)
(* does on this call: "error" (it raises) or the variant of the text it    *)
(* returns (temperature=0.7: the same prompt can give different texts).    *)
(***************************************************************************)
Outcomes == {"error", "v1", "v2"}
SynthesisFailed == [failed |-> "Synthesis generation failed."]
InsightFailed == [failed |-> "Insight generation failed."]
Completion(paragraph, topic, outcome) ==
    [text |-> outcome, paragraph |-> paragraph, topic |-> topic]

\* a generate_synthesis whose except-clause lets the exception through
generate_synthesis_raising(paragraph, topic, outcome) ==
    IF outcome = "error" THEN Exception("APIError", "the API call failed")
    ELSE Completion(paragraph, topic, outcome)

\* dash-app.py generate_synthesis, the function under the lru_cache
generate_synthesis(paragraph, topic, outcome) ==
    IF outcome = "error" THEN SynthesisFailed ELSE Completion(paragraph, topic, outcome)

\* app.py generate_insight, the function under st.cache_data
generate_insight(paragraph, topic, outcome) ==
    IF outcome = "error" THEN InsightFailed ELSE Completion(paragraph, topic, outcome)

\* a call of the cached generate_synthesis: [value, cache, called]
CachedSynthesis(cache, paragraph, topic, outcome) ==
    LET key == <<paragraph, topic>>
    IN  IF CacheHas(cache, key)
        THEN [value |-> CacheGet(cache, key), cache |-> LruTouch(cache, key),
              called |-> <<>>]
        ELSE LET v == generate_synthesis(paragraph, topic, outcome)
             IN  [value |-> v, cache |-> LruStore(cache, SynthesisMaxsize, key, v),
                  called |-> <<key>>]

\* a call of the cached generate_insight: [value, cache, called]
CachedInsight(cache, paragraph, topic, outcome) ==
    LET key == <<paragraph, topic>>
    IN  IF StHas(cache, key)
        THEN [value |-> StGet(cache, key), cache |-> cache, called |-> <<>>]
        ELSE LET v == generate_insight(paragraph, topic, outcome)
             IN  [value |-> v, cache |-> StStore(cache, key, v), called |-> <<key>>]

\* a call of the cached dash load_data: [value, cache]
CachedLoadData(cache, files, option, org_to_file) ==
    LET key == <<option, org_to_file>>
    IN  IF CacheHas(cache, key)
        THEN [value |-> CacheGet(cache, key), cache |-> LruTouch(cache, key)]
        ELSE LET df == load_data(files, option, org_to_file)
             IN  [value |-> df,
                  cache |-> IF IsException(df) THEN cache
                            ELSE LruStore(cache, LoadDataMaxsize, key, df)]

\* a call of the cached app.py load_data: [value, cache]
CachedAppLoadData(cache, files, option, org_to_file) ==
    LET key == <<option, org_to_file>>
    IN  IF StHas(cache, key)
        THEN [value |-> StGet(cache, key), cache |-> cache]
        ELSE LET df == app_load_data(files, option, org_to_file)
             IN  [value |-> df,
                  cache |-> IF IsException(df) THEN cache ELSE StStore(cache, key, df)]

(***************************************************************************)
(* The reference line of a result: row.get('country', '').strip() raises   *)
(* AttributeError on an empty (NaN, a float) country cell.  No file of the *)
(* model has a 'year' column, so row.get('year', ...) is its default.      *)
(***************************************************************************)
RECURSIVE LStrip(_)
LStrip(t) == IF t # <<>> /\ Head(t) = " " THEN LStrip(Tail(t)) ELSE t
RECURSIVE RStrip(_)
RStrip(t) == IF t # <<>> /\ t[Len(t)] = " " THEN RStrip(SubSeq(t, 1, Len(t) - 1)) ELSE t
Strip(t) == RStrip(LStrip(t))

YearDefault == "Year not available"

Reference(columns, row) ==
    LET country == IF "country" \in columns THEN row.country ELSE <<>>
    IN  IF country = NaN
        THEN Exception("AttributeError", "'float' object has no attribute 'strip'")
        ELSE IF Strip(country) # <<>>
        THEN [organization |-> row.organization, country |-> Strip(country),
              year |-> YearDefault]
        ELSE [organization |-> row.organization, country |-> <<>>, year |-> YearDefault]

\* dash-app.py create_search_card
create_search_card(synthesis, reference, paragraph, idx) ==
    [synthesis |-> synthesis, reference |-> reference, paragraph |-> paragraph,
     idx |-> idx, is_open |-> FALSE]

Alert(text, color) == [alert |-> color, text |-> text]
NoInfo == [text |-> ""]

\* how the API answers the calls of one search: the k-th row of the page
ApiModes == {"up", "down", "flaky"}
ApiOutcome(api, k) ==
    CASE api = "up" -> "v1"
      [] api = "down" -> "error"
      [] OTHER -> IF k % 2 = 1 THEN "error" ELSE "v2"

RECURSIVE BuildCards(_, _, _, _, _, _, _)
\* the for-loop of perform_search from the k-th row of the page on;
\* acc = [cards, cache, called, raise]
BuildCards(columns, page_rows, topic, page, api, k, acc) ==
    IF k > Len(page_rows) THEN acc
    ELSE LET row == page_rows[k]
             reference == Reference(columns, row)
         IN  IF IsException(reference) THEN [acc EXCEPT !.raise = <<reference>>]
             ELSE LET syn == CachedSynthesis(acc.cache, row.paragraph, topic,
                                             ApiOutcome(api, k))
                      card == create_search_card(syn.value, reference, row.paragraph,
                                  (k - 1) + (page - 1) * RESULTS_PER_PAGE)
                  IN  BuildCards(columns, page_rows, topic, page, api, k + 1,
                          [cards |-> Append(acc.cards, card), cache |-> syn.cache,
                           called |-> acc.called \o syn.called, raise |-> <<>>])

SearchOutput(cards, info, prev, next, page) ==
    [search_results |-> cards, pagination_info |-> info, prev_disabled |-> prev,
     next_disabled |-> next, current_page |-> page]

\* a slice that stops one row early
IlocShort(rows, start, end) == SubSeq(rows, start + 1, Min(end - 1, Len(rows)))

\* filtered_df.iloc[start:end] with start >= 0
Iloc(rows, start, end) == SubSeq(rows, start + 1, Min(end, Len(rows)))

\* the part of perform_search after the filter found rows
ShowPage(columns, rows, lcache, scache, topic, page, api) ==
    LET total_paragraphs == Len(rows)
        total_pages == Ceil(total_paragraphs, RESULTS_PER_PAGE)
        cur == Min(Max(1, page), total_pages)
        start == (cur - 1) * RESULTS_PER_PAGE
        end == start + RESULTS_PER_PAGE
        built == BuildCards(columns, Iloc(rows, start, end), topic, cur, api, 1,
                            [cards |-> <<>>, cache |-> scache, called |-> <<>>,
                             raise |-> <<>>])
    IN  [out |-> IF built.raise # <<>> THEN built.raise[1]
                 ELSE SearchOutput(built.cards,
                          [showing |-> <<start + 1, Min(end, total_paragraphs),
                                         total_paragraphs>>],
                          cur = 1, cur >= total_pages, cur),
         load_cache |-> lcache, synthesis_cache |-> built.cache,
         called |-> built.called]

\* dash-app.py perform_search: [out, load_cache, synthesis_cache, called], out
\* the five outputs or the exception that leaves the callback
perform_search(files, lcache, scache, clicks, option, topic, page, api) ==
    LET quiet(o, lc) == [out |-> o, load_cache |-> lc, synthesis_cache |-> scache,
                         called |-> <<>>]
    IN  IF clicks = 0 THEN quiet(SearchOutput(<<>>, NoInfo, TRUE, TRUE, 1), lcache)
        ELSE IF topic = <<>>
        THEN quiet(SearchOutput(<<>>, Alert("Please enter a topic", "info"),
                                TRUE, TRUE, 1), lcache)
        ELSE LET loaded == CachedLoadData(lcache, files, option,
                                          get_org_files.org_to_file)
                 df == loaded.value
             IN  IF IsException(df)
                 THEN quiet(SearchOutput(<<>>, Alert(df.msg, "danger"), TRUE, TRUE, 1),
                            loaded.cache)
                 ELSE LET filtered_df == filter_data(df, topic)
                      IN  IF IsException(filtered_df) THEN quiet(filtered_df, loaded.cache)
                          ELSE IF filtered_df.rows = <<>>
                          THEN quiet(SearchOutput(<<>>,
                                         Alert("No paragraphs found", "warning"),
                                         TRUE, TRUE, 1), loaded.cache)
                          ELSE ShowPage(filtered_df.columns, filtered_df.rows,
                                        loaded.cache, scache, topic, page, api)

(***************************************************************************)
(* What the user can type and select.                                      *)
(***************************************************************************)
TopicChars == {"a", "B", ".", "("}
Topics == UNION {[1..n -> TopicChars] : n \in 0..MaxTopicLen}

RECURSIVE Bump(_, _, _)
\* api_calls after function fn called the API for the keys of the sequence `called`
Bump(calls, fn, called) ==
    IF called = <<>> THEN calls
    ELSE LET k == <<fn, Head(called)>>
         IN  Bump(IF k \in DOMAIN calls THEN [calls EXCEPT ![k] = @ + 1]
                  ELSE calls @@ (k :> 1), fn, Tail(called))

NoEvent == [op |-> "init"]

\* the state every specification starts from, but for the files
InitProgram ==
    /\ topic_input = <<>>
    /\ dropdown_value = "All"
    /\ current_page = 1
    /\ n_clicks = 0
    /\ search_results = <<>>
    /\ pagination_info = NoInfo
    /\ prev_disabled = TRUE
    /\ next_disabled = TRUE
    /\ load_cache = <<>>
    /\ synthesis_cache = <<>>
    /\ data_cache = {}
    /\ insight_cache = {}
    /\ session_state = [current_paragraph |-> 0, topic |-> <<>>, total_paragraphs |-> 0]
    /\ selected_option = "All"
    /\ page_output = [shown |-> "nothing", buttons |-> FALSE]
    /\ api_calls = <<>>
    /\ event = NoEvent

(***************************************************************************)
(* The Dash application: the layout's components and its callbacks.        *)
(***************************************************************************)
\* the files, topics and API behaviours the interactive specifications draw from
UiFiles == {Unreadable, BigFile, GapFile}
UiTopics == {<<>>, <<"a">>, <<".">>, <<"B", "B">>}
UiApiModes == {"up", "down"}

Init ==
    /\ fs \in [Orgs -> UiFiles]
    /\ InitProgram

\* the user types into 'topic-input' (a State of perform_search, no callback)
EnterTopic ==
    /\ \E t \in UiTopics : t # topic_input /\ topic_input' = t
    /\ event' = [op |-> "topic"]
    /\ UNCHANGED <<fs, dropdown_value, current_page, n_clicks, search_results,
                   pagination_info, prev_disabled, next_disabled, load_cache,
                   synthesis_cache, api_calls, stVars>>

\* the user picks a data source (a State of perform_search, no callback)
SelectDataSource ==
    /\ \E o \in DropdownOptions : o # dropdown_value /\ dropdown_value' = o
    /\ event' = [op |-> "source"]
    /\ UNCHANGED <<fs, topic_input, current_page, n_clicks, search_results,
                   pagination_info, prev_disabled, next_disabled, load_cache,
                   synthesis_cache, api_calls, stVars>>

\* the outputs of a perform_search call reach the components, unless it raised
ApplySearch(r) ==
    /\ load_cache' = r.load_cache
    /\ synthesis_cache' = r.synthesis_cache
    /\ api_calls' = Bump(api_calls, "generate_synthesis", r.called)
    /\ IF IsException(r.out)
       THEN UNCHANGED <<search_results, pagination_info, prev_disabled, next_disabled,
                        current_page>>
       ELSE /\ search_results' = r.out.search_results
            /\ pagination_info' = r.out.pagination_info
            /\ prev_disabled' = r.out.prev_disabled
            /\ next_disabled' = r.out.next_disabled
            /\ current_page' = r.out.current_page

\* a click on 'search-button': n_clicks grows and perform_search runs
ClickSearch ==
    /\ n_clicks < MaxClicks
    /\ n_clicks' = n_clicks + 1
    /\ \E api \in UiApiModes :
          \E r \in {perform_search(fs, load_cache, synthesis_cache, n_clicks + 1,
                                  dropdown_value, topic_input, current_page, api)} :
              /\ ApplySearch(r)
              /\ event' = [op |-> "search", raised |-> IsException(r.out)]
    /\ UNCHANGED <<fs, topic_input, dropdown_value, stVars>>

\* dash-app.py update_page: [current_page, n_clicks], n_clicks = -1 for dash.no_update
update_page_result(button_id, page) ==
    IF button_id = "prev-button" /\ page > 1 THEN <<page - 1, 0>>
    ELSE IF button_id = "next-button" THEN <<page + 1, 0>>
    ELSE <<page, -1>>

\* a click on an enabled navigation button: update_page runs, and the
\* n_clicks = 0 it writes to 'search-button' triggers perform_search
update_page ==
    \E button_id \in {"prev-button", "next-button"} :
       /\ IF button_id = "prev-button" THEN ~prev_disabled ELSE ~next_disabled
       /\ LET u == update_page_result(button_id, current_page)
          IN  IF u[2] = -1
              THEN /\ current_page' = u[1]
                   /\ event' = [op |-> "update_page", button |-> button_id,
                                page |-> current_page, info |-> pagination_info]
                   /\ UNCHANGED <<n_clicks, search_results, pagination_info,
                                  prev_disabled, next_disabled, load_cache,
                                  synthesis_cache, api_calls>>
              ELSE /\ n_clicks' = u[2]
                   /\ \E api \in UiApiModes :
                         \E r \in {perform_search(fs, load_cache, synthesis_cache,
                                         u[2], dropdown_value, topic_input, u[1], api)} :
                            ApplySearch(r)
                   /\ event' = [op |-> "update_page", button |-> button_id,
                                page |-> current_page, info |-> pagination_info]
       /\ UNCHANGED <<fs, topic_input, dropdown_value, stVars>>

Next == EnterTopic \/ SelectDataSource \/ ClickSearch \/ update_page

Spec == Init /\ [][Next]_vars

(***************************************************************************)
(* The Streamlit application: one run of main() on the widgets' values.    *)
(* click is "none", "previous" or "next"; the result is the session state  *)
(* and the caches the run leaves, and what it rendered.  st.stop() and an  *)
(* exception end the run and keep what was written to the session state.   *)
(***************************************************************************)
Rendered(shown, buttons) == [shown |-> shown, buttons |-> buttons]

\* the button handling without the bounds check of lines 183-187
NavigateNoClamp(cur, total_paragraphs, click) ==
    IF click = "previous" THEN cur - 1
    ELSE IF click = "next" THEN cur + 1
    ELSE cur

\* a button handling that ignores the Previous button
NavigateNoPrevious(cur, total_paragraphs, click) ==
    LET b == IF click = "next" /\ cur < total_paragraphs - 1 THEN cur + 1 ELSE cur
        c == IF b >= total_paragraphs THEN total_paragraphs - 1 ELSE b
    IN  IF c < 0 THEN 0 ELSE c

\* lines 175-187: the button handling and the bounds check
Navigate(cur, total_paragraphs, click) ==
    LET a == IF click = "previous" /\ cur > 0 THEN cur - 1 ELSE cur
        b == IF click = "next" /\ a < total_paragraphs - 1 THEN a + 1 ELSE a
        c == IF b >= total_paragraphs THEN total_paragraphs - 1 ELSE b
    IN  IF c < 0 THEN 0 ELSE c

\* lines 189-219: the paragraph at current_index is looked up and shown
ShowParagraph(ss, dcache, icache, filtered_data, topic, outcome) ==
    LET current_index == ss.current_paragraph
        total_paragraphs == Len(filtered_data.rows)
        end(s, ic, called, output) ==
            [session_state |-> s, data_cache |-> dcache, insight_cache |-> ic,
             called |-> called, output |-> output]
        \* DataFrame.iloc[i]: a negative i counts from the end
        pos == IF current_index < 0 THEN total_paragraphs + current_index + 1
               ELSE current_index + 1
    IN  IF pos \notin DOMAIN filtered_data.rows
        THEN end(ss, icache, <<>>, Rendered("IndexError", TRUE))
        ELSE LET paragraph_data == filtered_data.rows[pos]
                 reference == Reference(filtered_data.columns, paragraph_data)
             IN  IF IsException(reference)
                 THEN end(ss, icache, <<>>, Rendered(reference.raise, TRUE))
                 ELSE LET ins == CachedInsight(icache, paragraph_data.paragraph, topic,
                                               outcome)
                      IN  end(ss, ins.cache, ins.called,
                              [shown |-> "paragraph", buttons |-> TRUE,
                               counter |-> <<current_index + 1, total_paragraphs>>,
                               insight |-> ins.value,
                               paragraph |-> paragraph_data.paragraph,
                               reference |-> reference,
                               progress |-> <<current_index + 1, total_paragraphs>>])

\* a topic update that keeps the paragraph index
TopicUpdateKeepsIndex(ss, topic) ==
    IF ss.topic # topic THEN [ss EXCEPT !.topic = topic] ELSE ss

\* lines 126-129: the entered topic is stored, a new topic resets the index
TopicUpdate(ss, topic) ==
    IF ss.topic # topic THEN [ss EXCEPT !.topic = topic, !.current_paragraph = 0]
    ELSE ss

\* app.py main
main(files, ss, dcache, icache, option, topic, click, outcome) ==
    LET s1 == TopicUpdate(ss, topic)
        loaded == CachedAppLoadData(dcache, files, option, get_org_files.org_to_file)
        df == loaded.value
        end(s, output) ==
            [session_state |-> s, data_cache |-> loaded.cache,
             insight_cache |-> icache, called |-> <<>>, output |-> output]
    IN  IF IsException(df) THEN end(s1, Rendered("stopped", FALSE))
        ELSE IF topic = <<>> THEN end(s1, Rendered("info", FALSE))
        ELSE LET filtered_data == filter_data(df, topic)
             IN  IF IsException(filtered_data)
                 THEN end(s1, Rendered(filtered_data.raise, FALSE))
                 ELSE IF filtered_data.rows = <<>>
                 THEN end(s1, Rendered("warning", FALSE))
                 ELSE LET total_paragraphs == Len(filtered_data.rows)
                          s2 == [s1 EXCEPT
                                   !.total_paragraphs = total_paragraphs,
                                   !.current_paragraph =
                                       Navigate(s1.current_paragraph, total_paragraphs,
                                                click)]
                      IN  ShowParagraph(s2, loaded.cache, icache, filtered_data, topic,
                                        outcome)

\* the working directories of the Streamlit specification: all files load;
\* one has an empty country cell; one is unreadable; none loads
StDirs == {[o \in Orgs |-> TinyFile],
           [o \in Orgs |-> IF o = OrgNames[1] THEN TinyFile ELSE GapFile],
           [o \in Orgs |-> IF o = OrgNames[1] THEN TinyFile ELSE Unreadable],
           [o \in Orgs |-> Unreadable]}
UiOutcomes == {"v1"}

InitSt ==
    /\ fs \in StDirs
    /\ InitProgram

\* a rerun of the script: the widgets' values, with or without a change, and
\* the button that was clicked, if the last run rendered the buttons
Run(click) ==
    /\ click # "none" => page_output.buttons
    /\ \E option \in DropdownOptions, topic \in UiTopics, outcome \in UiOutcomes :
          \E r \in {main(fs, session_state, data_cache, insight_cache, option, topic,
                        click, outcome)} :
              /\ session_state' = r.session_state
              /\ data_cache' = r.data_cache
              /\ insight_cache' = r.insight_cache
              /\ api_calls' = Bump(api_calls, "generate_insight", r.called)
              /\ page_output' = r.output
              /\ selected_option' = option
              /\ event' = [op |-> "main", click |-> click,
                           source_changed |-> option # selected_option,
                           topic_changed |-> topic # session_state.topic,
                           topic |-> topic,
                           before |-> session_state.current_paragraph]
    /\ UNCHANGED <<fs, dashVars>>

RunNoClick == Run("none")
RunPrevious == Run("previous")
RunNext == Run("next")

NextSt == RunNoClick \/ RunPrevious \/ RunNext

SpecStreamlit == InitSt /\ [][NextSt]_vars

(***************************************************************************)
(* The handlers as functions: each is called once, in a fresh process, on  *)
(* inputs drawn from bounded sets.  For perform_search the inputs are the  *)
(* values of the components it reads.                                      *)
(***************************************************************************)
PageArgs == (-1)..MaxPageArg

InitCalls ==
    /\ fs \in [Orgs -> FileChoices]
    /\ InitProgram

CallPerformSearch ==
    /\ event = NoEvent
    /\ \E clicks \in 0..1, option \in DropdownOptions, topic \in Topics,
          page \in PageArgs, api \in ApiModes :
          \E r \in {perform_search(fs, load_cache, synthesis_cache, clicks, option,
                                   topic, page, api)} :
             /\ n_clicks' = clicks
             /\ dropdown_value' = option
             /\ topic_input' = topic
             /\ ApplySearch(r)
             /\ event' = [op |-> "perform_search", page |-> page, api |-> api,
                          out |-> r.out]
    /\ UNCHANGED <<fs, stVars>>

CallLoadData ==
    /\ event = NoEvent
    /\ \E option \in DropdownOptions :
          \E r \in {CachedLoadData(load_cache, fs, option, get_org_files.org_to_file)} :
             /\ load_cache' = r.cache
             /\ event' = [op |-> "load_data", version |-> "dash-app.py",
                          option |-> option, out |-> r.value]
    /\ UNCHANGED <<fs, topic_input, dropdown_value, current_page, n_clicks,
                   search_results, pagination_info, prev_disabled, next_disabled,
                   synthesis_cache, stVars, api_calls>>

CallAppLoadData ==
    /\ event = NoEvent
    /\ \E option \in DropdownOptions :
          \E r \in {CachedAppLoadData(data_cache, fs, option,
                                      get_org_files.org_to_file)} :
             /\ data_cache' = r.cache
             /\ event' = [op |-> "load_data", version |-> "app.py",
                          option |-> option, out |-> r.value]
    /\ UNCHANGED <<fs, dashVars, insight_cache, session_state, selected_option,
                   page_output, api_calls>>

\* the first run of main() after the user chose a source and typed a topic
CallMain ==
    /\ event = NoEvent
    /\ \E option \in DropdownOptions, topic \in Topics, outcome \in Outcomes :
          \E r \in {main(fs, session_state, data_cache, insight_cache, option, topic,
                         "none", outcome)} :
             /\ session_state' = r.session_state
             /\ data_cache' = r.data_cache
             /\ insight_cache' = r.insight_cache
             /\ api_calls' = Bump(api_calls, "generate_insight", r.called)
             /\ page_output' = r.output
             /\ selected_option' = option
             /\ event' = [op |-> "main", outcome |-> outcome]
    /\ UNCHANGED <<fs, dashVars>>

NextCalls == CallPerformSearch \/ CallLoadData \/ CallAppLoadData \/ CallMain

SpecCalls == InitCalls /\ [][NextCalls]_vars

(***************************************************************************)
(* The topic filter as a function: a DataFrame and a topic are drawn, and  *)
(* filter_data is applied to them.                                         *)
(***************************************************************************)
CellChars == {"a", "A", "b"}
Cells == {NaN} \cup [1..1 -> CellChars] \cup [1..2 -> CellChars]
Frames == UNION {[1..n -> Cells] : n \in 0..MaxFrameRows}

InitFilter ==
    /\ fs = [o \in Orgs |-> Unreadable]
    /\ InitProgram

CallFilterData ==
    /\ event = NoEvent
    /\ \E cells \in Frames, topic \in Topics \ {<<>>} :
          LET df == [columns |-> {"paragraph", "country", "organization"},
                     rows |-> [i \in DOMAIN cells |-> Row(cells[i], <<>>, "o1")]]
          IN  event' = [op |-> "filter_data", df |-> df, topic |-> topic,
                        out |-> filter_data(df, topic)]
    /\ UNCHANGED <<fs, dashVars, stVars, api_calls>>

SpecFilter == InitFilter /\ [][CallFilterData]_vars

(***************************************************************************)
(* The two synthesis caches under the same requests.  The Dash process    *)
(* has served SynthesisMaxsize - 1 distinct pairs already, the Streamlit   *)
(* process none; each request is for the oldest of those pairs or for one  *)
(* of FreshPairs further pairs, and goes to generate_synthesis and to      *)
(* generate_insight.  A paragraph and a topic are numbers here: the caches *)
(* only hash and compare them.                                             *)
(***************************************************************************)
Prefilled == SynthesisMaxsize - 1
OldestPair == <<1, 0>>
RequestPairs == {OldestPair} \cup {<<SynthesisMaxsize + i, 0>> : i \in 1..FreshPairs}
RequestOutcomes == {"error", "v1"}

InitCache ==
    /\ fs = [o \in Orgs |-> Unreadable]
    /\ topic_input = <<>>
    /\ dropdown_value = "All"
    /\ current_page = 1
    /\ n_clicks = 0
    /\ search_results = <<>>
    /\ pagination_info = NoInfo
    /\ prev_disabled = TRUE
    /\ next_disabled = TRUE
    /\ load_cache = <<>>
    /\ data_cache = {}
    /\ session_state = [current_paragraph |-> 0, topic |-> <<>>, total_paragraphs |-> 0]
    /\ selected_option = "All"
    /\ page_output = [shown |-> "nothing", buttons |-> FALSE]
    /\ synthesis_cache = [i \in 1..Prefilled |->
                            [key |-> <<i, 0>>, value |-> generate_synthesis(i, 0, "v1")]]
    /\ insight_cache = {}
    /\ api_calls = [k \in {"generate_synthesis"} \X {<<i, 0>> : i \in 1..Prefilled} |-> 1]
    /\ event = NoEvent

Request ==
    /\ \E key \in RequestPairs, outcome \in RequestOutcomes :
          \E d \in {CachedSynthesis(synthesis_cache, key[1], key[2], outcome)},
             a \in {CachedInsight(insight_cache, key[1], key[2], outcome)} :
             /\ synthesis_cache' = d.cache
             /\ insight_cache' = a.cache
             /\ api_calls' = Bump(Bump(api_calls, "generate_synthesis", d.called),
                                  "generate_insight", a.called)
             /\ event' = [op |-> "request", key |-> key,
                          synthesis |-> d.value, insight |-> a.value]
    /\ UNCHANGED <<fs, topic_input, dropdown_value, current_page, n_clicks,
                   search_results, pagination_info, prev_disabled, next_disabled,
                   load_cache, data_cache, session_state, selected_option, page_output>>

SpecCache == InitCache /\ [][Request]_vars

PageShown(p, before) ==
    /\ current_page = p
    /\ search_results # <<>>
    /\ search_results[1].idx = (p - 1) * RESULTS_PER_PAGE
    /\ pagination_info = [showing |-> <<(p - 1) * RESULTS_PER_PAGE + 1,
                                        Min(p * RESULTS_PER_PAGE, before.showing[3]),
                                        before.showing[3]>>]

(***************************************************************************)
(* C1.  Pagination in the Dash version: a click on Next while page p of a  *)
(* result set with more pages is shown ends with page p+1 of that result   *)
(* set shown and current-page = p+1; a click on Previous on page p > 1     *)
(* ends with page p-1 shown and current-page = p-1.                        *)
(***************************************************************************)
C1_NavigationShowsAdjacentPage ==
    event.op = "update_page" =>
        IF event.button = "next-button"
        THEN PageShown(event.page + 1, event.info)
        ELSE PageShown(event.page - 1, event.info)

LiteralContains(cell, topic) ==
    /\ cell # NaN
    /\ \E i \in 0..(Len(cell) - Len(topic)) :
          \A j \in DOMAIN topic : Lower(cell[i + j]) = Lower(topic[j])

(***************************************************************************)
(* C4.  Filtering is a substring match: the result is exactly the rows     *)
(* whose paragraph holds the topic as a literal substring, ignoring case,  *)
(* in their original order; rows without a paragraph are left out.         *)
(***************************************************************************)
C4_FilterIsLiteralSubstring ==
    event.op = "filter_data" =>
        /\ ~IsException(event.out)
        /\ event.out.rows =
              SelectSeq(event.df.rows, LAMBDA r : LiteralContains(r.paragraph, event.topic))

AllFilesLoad == \A o \in Orgs : ~ReadFailed(fs[o]) /\ "paragraph" \in fs[o].columns

TaggedRows(o) == [i \in DOMAIN fs[o].rows |-> [fs[o].rows[i] EXCEPT !.organization = o]]

(***************************************************************************)
(* C5.  load_data returns, for 'All', the rows of every CSV file of the    *)
(* mapping, each tagged with the organization its file is named after,     *)
(* and for one organization exactly the rows of its file, tagged with it.  *)
(* Stated for a directory whose files all load and hold a paragraph        *)
(* column.                                                                 *)
(***************************************************************************)
C5_LoadDataReturnsTaggedRows ==
    (event.op = "load_data" /\ AllFilesLoad) =>
        /\ ~IsException(event.out)
        /\ event.out.rows =
              IF event.option = "All"
              THEN Concat([i \in DOMAIN OrgNames |-> TaggedRows(OrgNames[i])], 1)
              ELSE TaggedRows(event.option)

ReturnedResults ==
    /\ event.op = "perform_search"
    /\ ~IsException(event.out)
    /\ event.out.search_results # <<>>

FilteredRows ==
    filter_data(load_data(fs, dropdown_value, get_org_files.org_to_file),
                topic_input).rows

(***************************************************************************)
(* C2.  A perform_search that returns results shows a page window of the   *)
(* filtered rows: with N filtered rows and p the stored page clamped to    *)
(* 1..ceil(N/10), the cards are the filtered rows (p-1)*10 up to           *)
(* min(p*10, N)-1 in the filtered order, between 1 and 10 of them, each    *)
(* indexed by its position in the filtered set, and the info text is       *)
(* 'Showing (p-1)*10+1 to min(p*10, N) of N results'.                      *)
(***************************************************************************)
C2_PageWindow ==
    ReturnedResults =>
        LET N == Len(FilteredRows)
            pages == IF N % 10 = 0 THEN N \div 10 ELSE N \div 10 + 1
            p == IF event.page < 1 THEN 1 ELSE IF event.page > pages THEN pages
                 ELSE event.page
            last == IF p * 10 < N THEN p * 10 ELSE N
            cards == search_results
        IN  /\ current_page = p
            /\ Len(cards) = last - (p - 1) * 10
            /\ Len(cards) \in 1..10
            /\ \A k \in DOMAIN cards :
                  /\ cards[k].paragraph = FilteredRows[(p - 1) * 10 + k].paragraph
                  /\ cards[k].reference.organization =
                        FilteredRows[(p - 1) * 10 + k].organization
                  /\ cards[k].idx = (p - 1) * 10 + k - 1
            /\ pagination_info = [showing |-> <<(p - 1) * 10 + 1, last, N>>]

\* a stored page beyond the last page is clamped to a last page that is not full
C2_Witness ==
    /\ ReturnedResults
    /\ event.page > current_page
    /\ current_page >= 3
    /\ Len(search_results) < 10

LoadResult == load_data(fs, dropdown_value, get_org_files.org_to_file)

\* the k-th card's synthesis was asked of the API, and the call raised
ApiRaisedFor(cards, k) ==
    /\ ApiOutcome(event.api, k) = "error"
    /\ \A j \in 1..(k - 1) : cards[j].paragraph # cards[k].paragraph

(***************************************************************************)
(* C6.  Failures are caught and shown.  An exception from load_data makes  *)
(* perform_search return no cards, a danger alert with the exception's     *)
(* text, both buttons disabled and page 1.  An exception from the API call *)
(* makes generate_synthesis return 'Synthesis generation failed.' and the  *)
(* search returns the cards it returns when the API works; in the          *)
(* Streamlit version the insight is 'Insight generation failed.' and the   *)
(* paragraph shown is the one shown when the API works.                    *)
(***************************************************************************)
C6_FailuresAreCaughtAndShown ==
    /\ (event.op = "perform_search" /\ n_clicks > 0 /\ topic_input # <<>>
            /\ IsException(LoadResult)) =>
          /\ event.out = SearchOutput(<<>>, Alert(LoadResult.msg, "danger"), TRUE, TRUE, 1)
          /\ search_results = <<>>
          /\ pagination_info = Alert(LoadResult.msg, "danger")
          /\ prev_disabled /\ next_disabled /\ current_page = 1
    /\ ReturnedResults =>
          /\ \A k \in DOMAIN search_results :
                ApiRaisedFor(search_results, k) =>
                    search_results[k].synthesis = SynthesisFailed
          /\ LET up == perform_search(fs, <<>>, <<>>, n_clicks, dropdown_value,
                                      topic_input, event.page, "up").out
             IN  [k \in DOMAIN search_results |-> search_results[k].paragraph]
                    = [k \in DOMAIN up.search_results |-> up.search_results[k].paragraph]
    /\ event.op = "main" =>
          LET up == main(fs, [current_paragraph |-> 0, topic |-> <<>>,
                              total_paragraphs |-> 0], {}, {}, selected_option,
                         session_state.topic, "none", "v1").output
          IN  (event.outcome = "error" /\ up.shown = "paragraph") =>
                  /\ page_output.shown = "paragraph"
                  /\ page_output.insight = InsightFailed
                  /\ page_output.paragraph = up.paragraph
                  /\ page_output.counter = up.counter

\* every file is unreadable and the search shows the FileNotFoundError's text
C6_Witness ==
    /\ event.op = "perform_search"
    /\ pagination_info = Alert("No CSV files found in the directory.", "danger")
    /\ search_results = <<>>

\* the API raised for a card of a search that returned cards
C6_WitnessApi ==
    /\ ReturnedResults
    /\ \E k \in DOMAIN search_results :
          ApiRaisedFor(search_results, k) /\ search_results[k].synthesis = SynthesisFailed

FilteredSt ==
    filter_data(app_load_data(fs, selected_option, get_org_files.org_to_file),
                session_state.topic).rows

(***************************************************************************)
(* C7.  In the Streamlit version, whenever a paragraph is displayed the    *)
(* index satisfies 0 <= current_paragraph <= total_paragraphs - 1 for the  *)
(* filtered result of that rerun: the row lookup never goes out of range   *)
(* and the counter 'x of N' satisfies 1 <= x <= N.                         *)
(***************************************************************************)
C7_IndexInRange ==
    /\ page_output.shown # "IndexError"
    /\ page_output.shown = "paragraph" =>
          /\ 0 <= session_state.current_paragraph
          /\ session_state.current_paragraph <= Len(FilteredSt) - 1
          /\ page_output.counter = <<session_state.current_paragraph + 1, Len(FilteredSt)>>
          /\ 1 <= page_output.counter[1]
          /\ page_output.counter[1] <= page_output.counter[2]
          /\ page_output.paragraph =
                FilteredSt[session_state.current_paragraph + 1].paragraph

\* a change of data source shrank the result below the stored index
C7_Witness ==
    /\ event.op = "main"
    /\ event.source_changed /\ ~event.topic_changed /\ event.click = "none"
    /\ page_output.shown = "paragraph"
    /\ event.before > Len(FilteredSt) - 1
    /\ session_state.current_paragraph = Len(FilteredSt) - 1

(***************************************************************************)
(* C8.  A rerun whose entered topic differs from the stored topic, with no *)
(* navigation button clicked, stores the entered topic and sets            *)
(* current_paragraph to 0: the paragraph displayed, if one is, is the      *)
(* first of the new filtered result, '1 of N'.                             *)
(***************************************************************************)
C8_TopicChangeResets ==
    (event.op = "main" /\ event.topic_changed /\ event.click = "none") =>
        /\ session_state.topic = event.topic
        /\ session_state.current_paragraph = 0
        /\ page_output.shown = "paragraph" =>
              /\ page_output.counter = <<1, Len(FilteredSt)>>
              /\ page_output.paragraph = FilteredSt[1].paragraph

\* the index was beyond the first paragraph when the topic changed
C8_Witness ==
    /\ event.op = "main" /\ event.topic_changed /\ event.click = "none"
    /\ event.before > 0
    /\ page_output.shown = "paragraph"
    /\ page_output.counter[1] = 1 /\ page_output.counter[2] > 1

(***************************************************************************)
(* C9.  With the topic and the data source unchanged, a Previous click     *)
(* changes current_paragraph by -1 when it is > 0 and leaves it at 0, a    *)
(* Next click changes it by +1 when it is < total_paragraphs - 1 and       *)
(* leaves it at the last paragraph, and a rerun without a click leaves it  *)
(* unchanged.                                                              *)
(***************************************************************************)
C9_NavigationStep ==
    (event.op = "main" /\ ~event.topic_changed /\ ~event.source_changed) =>
        session_state.current_paragraph =
            CASE event.click = "previous" ->
                    IF event.before > 0 THEN event.before - 1 ELSE event.before
              [] event.click = "next" ->
                    IF event.before < Len(FilteredSt) - 1 THEN event.before + 1
                    ELSE event.before
              [] OTHER -> event.before

\* a Previous click from beyond the first paragraph
C9_Witness ==
    /\ event.op = "main" /\ ~event.topic_changed /\ ~event.source_changed
    /\ event.click = "previous"
    /\ event.before > 1
    /\ session_state.current_paragraph = event.before - 1
    /\ page_output.shown = "paragraph"

Calls(c, fn, key) == IF <<fn, key>> \in DOMAIN c THEN c[<<fn, key>>] ELSE 0
Without(cache, key) == SelectSeq(cache, LAMBDA e : e.key # key)

(***************************************************************************)
(* C3.  As claimed: over any sequence of requests the API is called at     *)
(* most once per (paragraph, topic) pair, by either function.              *)
(***************************************************************************)
C3_AtMostOncePerPair == \A k \in DOMAIN api_calls : api_calls[k] <= 1

(***************************************************************************)
(* C3, amended.  generate_insight calls the API at most once per pair and  *)
(* never drops a pair.  generate_synthesis keeps at most SynthesisMaxsize  *)
(* pairs: a request for a cached pair makes no API call and returns the    *)
(* cached value, and a pair is dropped only when a request for an uncached *)
(* pair finds the cache full, and then it is the least recently used one.  *)
(***************************************************************************)
C3_CachedWhileResident ==
    [][event'.op = "request" =>
        LET key == event'.key
            n == Len(synthesis_cache)
        IN  /\ Calls(api_calls', "generate_insight", key) = 1
            /\ insight_cache \subseteq insight_cache'
            /\ event'.insight = StGet(insight_cache', key)
            /\ Len(synthesis_cache') <= SynthesisMaxsize
            /\ synthesis_cache'[Len(synthesis_cache')] =
                  [key |-> key, value |-> event'.synthesis]
            /\ CacheHas(synthesis_cache, key) =>
                  /\ event'.synthesis = CacheGet(synthesis_cache, key)
                  /\ Calls(api_calls', "generate_synthesis", key)
                        = Calls(api_calls, "generate_synthesis", key)
                  /\ Without(synthesis_cache', key) = Without(synthesis_cache, key)
            /\ ~CacheHas(synthesis_cache, key) =>
                  /\ Calls(api_calls', "generate_synthesis", key)
                        = Calls(api_calls, "generate_synthesis", key) + 1
                  /\ SubSeq(synthesis_cache', 1, Len(synthesis_cache') - 1) =
                        IF n = SynthesisMaxsize THEN Tail(synthesis_cache)
                        ELSE synthesis_cache
    ]_vars

\* the oldest pair was evicted and asked for again: generate_synthesis called
\* the API twice for it, generate_insight once
C3_Witness ==
    /\ event.op = "request"
    /\ Calls(api_calls, "generate_synthesis", OldestPair) = 2
    /\ Calls(api_calls, "generate_insight", OldestPair) = 1
    /\ Len(synthesis_cache) = SynthesisMaxsize

====
